---- MODULE Spec2Model ----
(***************************************************************************)
(* Model of the startup pitch bot: pitch_engine.py (the pitch record, the  *)
(* completion statistics, ingest and evaluate) and the session flow of     *)
(* app.py that calls them.                                                 *)
(*                                                                         *)
(* Text is a sequence of pieces.  A piece is a string: "---", the words of *)
(* the delimiters, a newline, a word of prose, or one whole JSON text.      *)
(* "-" occurs in no piece but "---", and the delimiter words occur only as *)
(* whole pieces, so a match of a delimiter in the concatenated characters  *)
(* always starts and ends on a piece boundary: searching, splitting and    *)
(* replacing piece-wise is what Python does character-wise on such text.   *)
(***************************************************************************)
EXTENDS Naturals, Sequences, FiniteSets, TLC

VARIABLES pitch_data, mode, evaluation_result, eval_state, turn, stats

vars == <<pitch_data, mode, evaluation_result, eval_state, turn, stats>>

(***************************** bounds **************************************)
\* Longest reply built from well-formed or malformed directives only.
MaxBlocks == 3
\* Longest reply built from any kind of block.
MaxAnyBlocks == 2
\* Longest reply that is an arbitrary arrangement of delimiter pieces.
MaxRawLen == 4
\* Most blocks in one reply of a session turn.
MaxTurnBlocks == 1

(***************************** text ****************************************)
DASH == "---"
NL == "\n"
UPDATE_DELIM == <<DASH, "UPDATE", DASH>>
END_DELIM == <<DASH, "END", DASH>>
READY_MARKER == <<DASH, "READY_FOR_EVALUATION", DASH>>

\* The pieces str.strip() removes.
Whitespace == {NL, " "}

Min(S) == CHOOSE m \in S : \A n \in S : m <= n

\* pat occurs in s at position i.
MatchAt(s, pat, i) ==
    /\ i + Len(pat) - 1 <= Len(s)
    /\ \A k \in 1..Len(pat) : s[i + k - 1] = pat[k]

\* s.find(pat): the first position of pat in s, 0 when there is none.
str_find(s, pat) ==
    LET hits == {i \in 1..Len(s) : MatchAt(s, pat, i)}
    IN  IF hits = {} THEN 0 ELSE Min(hits)

\* pat in s
str_contains(s, pat) == str_find(s, pat) # 0

\* s.split(pat): the pieces between the leftmost non-overlapping matches.
RECURSIVE str_split(_, _)
str_split(s, pat) ==
    LET i == str_find(s, pat)
    IN  IF i = 0 THEN <<s>>
        ELSE <<SubSeq(s, 1, i - 1)>>
             \o str_split(SubSeq(s, i + Len(pat), Len(s)), pat)

\* s.replace(pat, ""): the leftmost non-overlapping matches removed, once.
RECURSIVE str_remove(_, _)
str_remove(s, pat) ==
    LET i == str_find(s, pat)
    IN  IF i = 0 THEN s
        ELSE SubSeq(s, 1, i - 1)
             \o str_remove(SubSeq(s, i + Len(pat), Len(s)), pat)

\* s.strip()
RECURSIVE str_strip(_)
str_strip(s) ==
    IF s = <<>> THEN s
    ELSE IF Head(s) \in Whitespace THEN str_strip(Tail(s))
    ELSE IF s[Len(s)] \in Whitespace THEN str_strip(SubSeq(s, 1, Len(s) - 1))
    ELSE s

(***************************** JSON ****************************************)
\* A decoded JSON value: its Python type and, for a string, the string.
Str(s) == [t |-> "str", v |-> s]
Null == [t |-> "NoneType", v |-> ""]
Num(s) == [t |-> "int", v |-> s]
List(s) == [t |-> "list", v |-> s]
\* A key the object does not hold.
Absent == [t |-> "absent", v |-> ""]

\* The JSON texts a reply may carry between the delimiters.
J_ICP == "{\"field_key\":\"icp\",\"value\":\"students\",\"state\":\"complete\"}"
J_PD == "{\"field_key\":\"problem_definition\",\"value\":\"slow hiring\",\"state\":\"complete\"}"
J_SD == "{\"field_key\":\"solution_description\",\"value\":\"job board\",\"state\":\"complete\"}"
J_ICP_PARTIAL == "{\"field_key\":\"icp\",\"value\":\"stu\",\"state\":\"partial\"}"
J_ICP_KEY_ONLY == "{\"field_key\":\"icp\"}"
J_ICP_DONE == "{\"field_key\":\"icp\",\"value\":\"students\",\"state\":\"done\"}"
J_ICP_NULL == "{\"field_key\":\"icp\",\"value\":\"students\",\"state\":null}"
J_MARKET == "{\"field_key\":\"market\",\"value\":\"big\",\"state\":\"complete\"}"
J_NO_KEY == "{\"value\":\"big\",\"state\":\"complete\"}"
J_NUM_KEY == "{\"field_key\":7,\"value\":\"big\",\"state\":\"complete\"}"
J_LIST_KEY == "{\"field_key\":[\"icp\"],\"value\":\"big\",\"state\":\"complete\"}"
J_ARRAY == "[1]"
\* A scoring reply: an object with none of a directive's keys.
J_EVALUATION == "{\"overall_verdict\":{\"decision\":\"NOT FUNDABLE YET\",\"reasoning\":\"crowded\"}}"
\* Not JSON: the closing brace is missing.
BAD_ICP == "{\"field_key\":\"icp\",\"value\":\"pupils\",\"state\":\"complete\""
BAD_PD == "{\"field_key\":\"problem_definition\",\"value\":\"cost\",\"state\":\"partial\""

Obj(k, v, s) == [ok |-> TRUE, is_object |-> TRUE, field_key |-> k, value |-> v, state |-> s]
NotObj == [ok |-> TRUE, is_object |-> FALSE, field_key |-> Absent, value |-> Absent, state |-> Absent]
JSONDecodeError == [ok |-> FALSE, is_object |-> FALSE, field_key |-> Absent, value |-> Absent, state |-> Absent]

\* json.loads(s) on stripped text: exactly one complete JSON text decodes; the
\* empty text, prose, delimiter pieces, a truncated text, and a JSON text with
\* anything before or after it raise JSONDecodeError.
json_loads(s) ==
    LET one == s
    IN
    IF Len(one) # 1 THEN JSONDecodeError
    ELSE CASE one[1] = J_ICP -> Obj(Str("icp"), Str("students"), Str("complete"))
           [] one[1] = J_PD -> Obj(Str("problem_definition"), Str("slow hiring"), Str("complete"))
           [] one[1] = J_SD -> Obj(Str("solution_description"), Str("job board"), Str("complete"))
           [] one[1] = J_ICP_PARTIAL -> Obj(Str("icp"), Str("stu"), Str("partial"))
           [] one[1] = J_ICP_KEY_ONLY -> Obj(Str("icp"), Absent, Absent)
           [] one[1] = J_ICP_DONE -> Obj(Str("icp"), Str("students"), Str("done"))
           [] one[1] = J_ICP_NULL -> Obj(Str("icp"), Str("students"), Null)
           [] one[1] = J_MARKET -> Obj(Str("market"), Str("big"), Str("complete"))
           [] one[1] = J_NO_KEY -> Obj(Absent, Str("big"), Str("complete"))
           [] one[1] = J_NUM_KEY -> Obj(Num("7"), Str("big"), Str("complete"))
           [] one[1] = J_LIST_KEY -> Obj(List("icp"), Str("big"), Str("complete"))
           [] one[1] = J_ARRAY -> NotObj
           [] one[1] = J_EVALUATION -> Obj(Absent, Absent, Absent)
           [] OTHER -> JSONDecodeError

\* d.get(key, default) on a decoded member.
dict_get(member, default) == IF member = Absent THEN default ELSE member

(***************************** pitch record ********************************)
FIELD_INFO == {"problem_definition", "solution_description", "icp"}

Entry(v, s) == [value |-> v, state |-> s]

get_default_pitch_data == [k \in FIELD_INFO |-> Entry(Str(""), Str("unknown"))]

\* sum(1 for field in pitch_data.values() if field["state"] == name)
CountState(pd, name) == Cardinality({k \in DOMAIN pd : pd[k].state = Str(name)})

\* Counts "partial" entries as complete.
get_completion_stats_lax(pd) ==
    LET total == Cardinality(DOMAIN pd)
        complete == CountState(pd, "complete") + CountState(pd, "partial")
    IN  [total |-> total,
         complete |-> complete,
         partial |-> CountState(pd, "partial"),
         unknown |-> CountState(pd, "unknown"),
         percentage |-> IF total > 0 THEN [num |-> complete * 100, den |-> total]
                        ELSE [num |-> 0, den |-> 1]]

\* percentage is the fraction num/den, which the code rounds to a float.
get_completion_stats(pd) ==
    LET total == Cardinality(DOMAIN pd)
        complete == CountState(pd, "complete")
    IN  [total |-> total,
         complete |-> complete,
         partial |-> CountState(pd, "partial"),
         unknown |-> CountState(pd, "unknown"),
         percentage |-> IF total > 0 THEN [num |-> complete * 100, den |-> total]
                        ELSE [num |-> 0, den |-> 1]]

(***************************** ingest **************************************)
\* Objects live in a heap, ref -> record: "arg" is the caller's record, "copy"
\* the one copy.deepcopy allocates.

\* updated_pitch_data = pitch_data: a second name for the caller's record.
copy_alias(heap, ref) == [heap |-> heap, ref |-> ref]

\* copy.deepcopy(pitch_data): a new object equal to the old one.
copy_deepcopy(heap, ref) == [heap |-> heap @@ ("copy" :> heap[ref]), ref |-> "copy"]

Ok(heap) == [heap |-> heap, error |-> "none"]
Raise(heap, e) == [heap |-> heap, error |-> e]

\* Stores the value and leaves the state as it was.
apply_update_value_only(heap, ref, update) ==
    LET field_key == dict_get(update.field_key, Null)
    IN  IF field_key.t = "list" THEN Raise(heap, "TypeError")
        ELSE IF field_key.t = "str" /\ field_key.v \in DOMAIN heap[ref]
        THEN Ok([heap EXCEPT ![ref][field_key.v].value = dict_get(update.value, Str(""))])
        ELSE Ok(heap)

\* Lines 128-131, for a decoded object: `field_key in updated_pitch_data`
\* hashes field_key, which raises TypeError for a list; a key that is no key
\* of the record (None when absent) changes nothing.
apply_update(heap, ref, update) ==
    LET field_key == dict_get(update.field_key, Null)
    IN  IF field_key.t = "list" THEN Raise(heap, "TypeError")
        ELSE IF field_key.t = "str" /\ field_key.v \in DOMAIN heap[ref]
        THEN Ok([heap EXCEPT ![ref][field_key.v] =
                    Entry(dict_get(update.value, Str("")),
                          dict_get(update.state, Str("partial")))])
        ELSE Ok(heap)

\* The loop with `break` in place of `pass` in the except clause.
RECURSIVE update_loop_break(_, _, _, _)
update_loop_break(heap, ref, parts, i) ==
    IF i > Len(parts) THEN Ok(heap)
    ELSE IF ~str_contains(parts[i], END_DELIM)
    THEN update_loop_break(heap, ref, parts, i + 1)
    ELSE LET json_str == str_strip(str_split(parts[i], END_DELIM)[1])
             update == json_loads(json_str)
         IN  IF ~update.ok THEN Ok(heap)
             ELSE IF ~update.is_object THEN Raise(heap, "AttributeError")
             ELSE LET r == apply_update(heap, ref, update)
                  IN  IF r.error # "none" THEN r
                      ELSE update_loop_break(r.heap, ref, parts, i + 1)

\* Lines 123-133, from part i on (parts[1] is the text before the first
\* delimiter, Python's parts[0]).  JSONDecodeError is caught and the block
\* skipped; update.get on a decoded value that is no object raises
\* AttributeError, which, like TypeError, nothing catches.
RECURSIVE update_loop(_, _, _, _)
update_loop(heap, ref, parts, i) ==
    IF i > Len(parts) THEN Ok(heap)
    ELSE IF ~str_contains(parts[i], END_DELIM)
    THEN update_loop(heap, ref, parts, i + 1)
    ELSE LET json_str == str_strip(str_split(parts[i], END_DELIM)[1])
             update == json_loads(json_str)
         IN  IF ~update.ok THEN update_loop(heap, ref, parts, i + 1)
             ELSE IF ~update.is_object THEN Raise(heap, "AttributeError")
             ELSE LET r == apply_update(heap, ref, update)
                  IN  IF r.error # "none" THEN r
                      ELSE update_loop(r.heap, ref, parts, i + 1)

\* Lines 120-133.
parse_updates(heap, ref, ai_message) ==
    IF str_contains(ai_message, UPDATE_DELIM)
    THEN update_loop(heap, ref, str_split(ai_message, UPDATE_DELIM), 2)
    ELSE Ok(heap)

\* Lines 135-136.
ready_for_eval(ai_message) == str_contains(ai_message, READY_MARKER)

\* Lines 139-143.
display_message(ai_message) ==
    LET cut == IF str_contains(ai_message, UPDATE_DELIM)
               THEN str_strip(str_split(ai_message, UPDATE_DELIM)[1])
               ELSE ai_message
    IN  IF str_contains(cut, READY_MARKER)
        THEN str_strip(str_remove(cut, READY_MARKER))
        ELSE cut

\* Lines 56-65: state.upper() raises AttributeError for a state that is no
\* str, and len(value) raises TypeError for a non-zero number.
prompt_raises(pd) ==
    \E k \in DOMAIN pd : pd[k].state.t # "str" \/ pd[k].value.t = "int"

\* What a call of ingest leaves: how it ended, the model calls it made, the
\* caller's record after it (arg) and, when it returned, the result.
Outcome(how, e, n, arg, pd, msg, ready) ==
    [outcome |-> how, error |-> e, calls |-> n, arg |-> arg,
     pitch_data |-> pd, response |-> msg, ready_for_evaluation |-> ready]

\* Lines 114-149, given the model's text.
ingest_reply(pitch_data_arg, ai_message) ==
    LET c == copy_deepcopy("arg" :> pitch_data_arg, "arg")
        r == parse_updates(c.heap, c.ref, ai_message)
    IN  IF r.error # "none"
        THEN Outcome("raised", r.error, 1, r.heap["arg"], r.heap["arg"], <<>>, FALSE)
        ELSE Outcome("returned", "none", 1, r.heap["arg"], r.heap[c.ref],
                     display_message(ai_message), ready_for_eval(ai_message))

\* A failed call answered with a fresh record instead of the exception.
ingest_swallow(pitch_data_arg, reply) ==
    IF prompt_raises(pitch_data_arg)
    THEN Outcome("raised", "AttributeError", 0, pitch_data_arg, pitch_data_arg, <<>>, FALSE)
    ELSE IF ~reply.ok
    THEN Outcome("returned", "none", 1, pitch_data_arg, get_default_pitch_data, <<>>, FALSE)
    ELSE ingest_reply(pitch_data_arg, reply.content)

\* ingest(client, conversation_history, pitch_data), lines 45-149.  reply is
\* what client.chat.completions.create does when called: it raises (~ok) or
\* returns content.  The conversation history only adds to the prompt.
ingest(pitch_data_arg, reply) ==
    IF prompt_raises(pitch_data_arg)
    THEN Outcome("raised", "AttributeError", 0, pitch_data_arg, pitch_data_arg, <<>>, FALSE)
    ELSE IF ~reply.ok
    THEN Outcome("raised", "APIError", 1, pitch_data_arg, pitch_data_arg, <<>>, FALSE)
    ELSE ingest_reply(pitch_data_arg, reply.content)

(***************************** evaluate ************************************)
\* The three model calls of evaluate, in the order of the code.
Stages == <<"research", "synthesis", "scoring">>

\* One model call of evaluate: its stage, the earlier output its prompt
\* embeds ("" for none), whether it returned, and what it returned.
Call(stage, prior, ok, output) == [stage |-> stage, prior |-> prior, ok |-> ok, output |-> output]

\* evaluation_result is None (<<>>) or <<the dictionary evaluate returned>>.
None == <<>>

\* An undecodable scoring reply answered with an empty evaluation.
scoring_result_fallback(content, competitive_analysis) ==
    [raised |-> FALSE,
     result |-> <<[evaluation |-> IF json_loads(<<content>>).ok THEN content ELSE "{}",
                   competitive_analysis_full |-> competitive_analysis]>>]

\* Lines 289-294: json.loads of the scoring reply raises or the result is
\* built from the decoded reply and the synthesis text.
scoring_result(content, competitive_analysis) ==
    IF json_loads(<<content>>).ok
    THEN [raised |-> FALSE,
          result |-> <<[evaluation |-> content,
                        competitive_analysis_full |-> competitive_analysis]>>]
    ELSE [raised |-> TRUE, result |-> None]

\* Lines 190-219: the synthesis prompt embeds the research output.
synthesis_prompt(web_research_results) == web_research_results

\* Lines 233-275: the scoring prompt embeds the synthesis output.
scoring_prompt(competitive_analysis) == competitive_analysis

(***************************** replies *************************************)
SeqsUpTo(S, n) == UNION {[1..k -> S] : k \in 0..n}

\* The texts of well-formed directives for known fields, of malformed blocks,
\* and of the other decodable payloads.
DirectiveTexts == {J_ICP, J_PD, J_SD, J_ICP_PARTIAL}
MalformedTexts == {BAD_ICP, BAD_PD}
OtherTexts == {J_ICP_KEY_ONLY, J_ICP_DONE, J_ICP_NULL, J_MARKET, J_NO_KEY,
               J_NUM_KEY, J_LIST_KEY, J_ARRAY}

\* A block: the payload after ---UPDATE---, closed by ---END--- or not.
Closed(texts) == {[text |-> t, closed |-> TRUE] : t \in texts}
DirectiveBlocks == Closed(DirectiveTexts \cup MalformedTexts)
AnyBlocks == Closed(DirectiveTexts \cup MalformedTexts \cup OtherTexts)
             \cup {[text |-> J_ICP, closed |-> FALSE]}

RenderBlock(b) ==
    UPDATE_DELIM \o <<NL, b.text, NL>> \o (IF b.closed THEN END_DELIM \o <<NL>> ELSE <<>>)

RECURSIVE RenderBlocks(_)
RenderBlocks(bs) ==
    IF bs = <<>> THEN <<>> ELSE RenderBlock(Head(bs)) \o RenderBlocks(Tail(bs))

\* A reply in the format the prompt asks for: prose, then the blocks, then
\* the readiness marker when there is one.
Render(bs, marker) ==
    <<"Got it.", NL>> \o RenderBlocks(bs) \o (IF marker THEN READY_MARKER ELSE <<>>)

\* What the model call does.  blocks and marker record how a reply of kind
\* "blocks" was composed.
BlockReply(bs, marker) ==
    [ok |-> TRUE, kind |-> "blocks", content |-> Render(bs, marker),
     blocks |-> bs, marker |-> marker]
RawReply(text) ==
    [ok |-> TRUE, kind |-> "raw", content |-> text, blocks |-> <<>>, marker |-> FALSE]
FailedCall ==
    [ok |-> FALSE, kind |-> "error", content |-> <<>>, blocks |-> <<>>, marker |-> FALSE]
\* No call: ingest ended before it reached the model.
NoCall ==
    [ok |-> FALSE, kind |-> "none", content |-> <<>>, blocks |-> <<>>, marker |-> FALSE]

RawPieces == {DASH, "UPDATE", "END", "READY_FOR_EVALUATION", NL, "Hi"}

BlockReplies(blockSeqs) == {BlockReply(bs, m) : bs \in blockSeqs, m \in BOOLEAN}

\* The replies of one call of ingest on its own.
AllReplies ==
    BlockReplies(SeqsUpTo(DirectiveBlocks, MaxBlocks) \cup SeqsUpTo(AnyBlocks, MaxAnyBlocks))
    \cup {RawReply(t) : t \in SeqsUpTo(RawPieces, MaxRawLen)}
    \cup {FailedCall}

\* The replies of a turn of the session.
TurnBlocks == Closed({J_ICP, J_PD, J_SD, J_ICP_DONE, J_ICP_NULL, J_MARKET, J_LIST_KEY})
TurnReplies == BlockReplies(SeqsUpTo(TurnBlocks, MaxTurnBlocks)) \cup {FailedCall}

\* The outputs of the calls of evaluate; a failed call has none.
ResearchOutputs == {"findings A", "findings B"}
SynthesisOutputs == {"analysis A", "analysis B"}
ScoringOutputs == {J_EVALUATION, "I cannot score this."}

\* The records a first call may be given: every field fresh, filled, or left
\* with a state that is no string by an earlier directive.
EntryKinds == {Entry(Str(""), Str("unknown")), Entry(Str("old"), Str("complete")),
               Entry(Str("old"), Null)}
IngestRecords == [FIELD_INFO -> EntryKinds]

\* The records statistics are computed of: any of the five kinds of state.
StateKinds == {Str("unknown"), Str("partial"), Str("complete"), Str("done"), Null}
StatsRecords == [FIELD_INFO -> {Entry(Str("text"), st) : st \in StateKinds}]

(***************************** session *************************************)
NoTurn ==
    [called |-> FALSE, before |-> get_default_pitch_data, mode_before |-> "ingest",
     reply |-> NoCall,
     result |-> Outcome("none", "none", 0, get_default_pitch_data,
                        get_default_pitch_data, <<>>, FALSE)]

NoStats == [total |-> 0, complete |-> 0, partial |-> 0, unknown |-> 0,
            percentage |-> [num |-> 0, den |-> 1]]

Idle == [pc |-> "idle", ended |-> "none", log |-> <<>>]

\* app.py lines 26-39 and the first run of the sidebar (line 45).
Init ==
    /\ pitch_data = get_default_pitch_data
    /\ mode = "ingest"
    /\ evaluation_result = None
    /\ eval_state = Idle
    /\ turn = NoTurn
    /\ stats = get_completion_stats(pitch_data)

\* app.py lines 90-108: the result is stored when ingest returned; an
\* exception is shown and the session left as it was.
chat_handler(session_pitch_data, session_mode, result) ==
    IF result.outcome = "returned"
    THEN [pitch_data |-> result.pitch_data,
          mode |-> IF result.ready_for_evaluation THEN "evaluate" ELSE session_mode]
    ELSE [pitch_data |-> result.arg, mode |-> session_mode]

\* app.py lines 84-110: one chat turn with a reply of `replies`.  When the
\* prompt cannot be built the model is not called and there is no reply.
Turn(replies) ==
    /\ mode = "ingest"
    /\ eval_state.pc = "idle"
    /\ \E reply \in (IF prompt_raises(pitch_data) THEN {NoCall} ELSE replies) :
       \E result \in {ingest(pitch_data, reply)} :
       \E after \in {chat_handler(pitch_data, mode, result)} :
          /\ pitch_data' = after.pitch_data
          /\ mode' = after.mode
          /\ turn' = [called |-> TRUE, before |-> pitch_data, mode_before |-> mode,
                      reply |-> reply, result |-> result]
          /\ stats' = get_completion_stats(after.pitch_data)
    /\ UNCHANGED <<evaluation_result, eval_state>>

ChatTurn == Turn(TurnReplies)

\* app.py lines 65-72 (Reset Pitch), 143-150 and 250-257 (Start Over).
StartFresh ==
    /\ pitch_data' = get_default_pitch_data
    /\ mode' = "ingest"
    /\ evaluation_result' = None
    /\ eval_state' = Idle
    /\ turn' = NoTurn
    /\ stats' = get_completion_stats(get_default_pitch_data)

ResetPitch == eval_state.pc = "idle" /\ StartFresh

\* app.py lines 133-135.
GoBackToEdit ==
    /\ mode = "evaluate"
    /\ mode' = "ingest"
    /\ turn' = NoTurn
    /\ stats' = get_completion_stats(pitch_data)
    /\ UNCHANGED <<pitch_data, evaluation_result, eval_state>>

\* app.py lines 138-140.
SubmitForEvaluation ==
    /\ mode = "evaluate"
    /\ mode' = "evaluation_result"
    /\ turn' = NoTurn
    /\ stats' = get_completion_stats(pitch_data)
    /\ UNCHANGED <<pitch_data, evaluation_result, eval_state>>

\* app.py lines 143-150.
StartOver == mode = "evaluate" /\ StartFresh

\* app.py lines 154-159 and pitch_engine.py lines 178-187: a run of the page
\* in mode evaluation_result without a result calls evaluate, whose first
\* model call is the research call.
EvaluateResearch ==
    /\ mode = "evaluation_result"
    /\ evaluation_result = None
    /\ eval_state.pc = "idle"
    /\ \/ \E out \in ResearchOutputs :
             eval_state' = [pc |-> "synthesis", ended |-> "none",
                            log |-> <<Call("research", "", TRUE, out)>>]
       \/ eval_state' = [pc |-> "idle", ended |-> "raised",
                         log |-> <<Call("research", "", FALSE, "")>>]
    /\ turn' = NoTurn
    /\ stats' = get_completion_stats(pitch_data)
    /\ UNCHANGED <<pitch_data, mode, evaluation_result>>

\* pitch_engine.py lines 187-230.
EvaluateSynthesis ==
    /\ eval_state.pc = "synthesis"
    /\ LET web_research_results == eval_state.log[1].output
           prompt == synthesis_prompt(web_research_results)
       IN  \/ \E out \in SynthesisOutputs :
                eval_state' = [pc |-> "scoring", ended |-> "none",
                               log |-> Append(eval_state.log,
                                              Call("synthesis", prompt, TRUE, out))]
           \/ eval_state' = [pc |-> "idle", ended |-> "raised",
                             log |-> Append(eval_state.log,
                                            Call("synthesis", prompt, FALSE, ""))]
    /\ UNCHANGED <<pitch_data, mode, evaluation_result, turn, stats>>

\* pitch_engine.py lines 230-294 and the assignment of app.py line 156.
EvaluateScoring ==
    /\ eval_state.pc = "scoring"
    /\ LET competitive_analysis == eval_state.log[2].output
           prompt == scoring_prompt(competitive_analysis)
       IN  \/ \E content \in ScoringOutputs :
                LET r == scoring_result(content, competitive_analysis)
                IN  /\ eval_state' = [pc |-> "idle",
                                      ended |-> IF r.raised THEN "raised" ELSE "returned",
                                      log |-> Append(eval_state.log,
                                                     Call("scoring", prompt, TRUE, content))]
                    /\ evaluation_result' = r.result
           \/ /\ eval_state' = [pc |-> "idle", ended |-> "raised",
                                log |-> Append(eval_state.log,
                                               Call("scoring", prompt, FALSE, ""))]
              /\ evaluation_result' = None
    /\ UNCHANGED <<pitch_data, mode, turn, stats>>

\* app.py lines 245-248.
RefinePitch ==
    /\ mode = "evaluation_result"
    /\ evaluation_result # None
    /\ mode' = "ingest"
    /\ evaluation_result' = None
    /\ eval_state' = Idle
    /\ turn' = NoTurn
    /\ stats' = get_completion_stats(pitch_data)
    /\ UNCHANGED pitch_data

\* app.py lines 250-257.
StartOverAfterResult ==
    /\ mode = "evaluation_result"
    /\ evaluation_result # None
    /\ StartFresh

Next ==
    \/ ChatTurn
    \/ ResetPitch
    \/ GoBackToEdit
    \/ SubmitForEvaluation
    \/ StartOver
    \/ EvaluateResearch
    \/ EvaluateSynthesis
    \/ EvaluateScoring
    \/ RefinePitch
    \/ StartOverAfterResult

Spec == Init /\ [][Next]_vars

(***************************** one call of ingest **************************)
\* A session holding any record, before its first turn.
InitIngest ==
    /\ pitch_data \in IngestRecords
    /\ mode = "ingest"
    /\ evaluation_result = None
    /\ eval_state = Idle
    /\ turn = NoTurn
    /\ stats = get_completion_stats(pitch_data)

FirstTurn == ~turn.called /\ Turn(AllReplies)

IngestSpec == InitIngest /\ [][FirstTurn]_vars

(***************************** statistics **********************************)
\* The sidebar (app.py line 45) over any record.
InitStats ==
    /\ pitch_data \in StatsRecords
    /\ mode = "ingest"
    /\ evaluation_result = None
    /\ eval_state = Idle
    /\ turn = NoTurn
    /\ stats = NoStats

Sidebar ==
    /\ stats = NoStats
    /\ stats' = get_completion_stats(pitch_data)
    /\ UNCHANGED <<pitch_data, mode, evaluation_result, eval_state, turn>>

StatsSpec == InitStats /\ [][Sidebar]_vars

(***************************** properties **********************************)
Canonical == {Str("unknown"), Str("partial"), Str("complete")}

\* What each well-formed directive text asks for.
DirectiveOf(text) ==
    CASE text = J_ICP -> [field_key |-> "icp", entry |-> Entry(Str("students"), Str("complete"))]
      [] text = J_PD -> [field_key |-> "problem_definition",
                         entry |-> Entry(Str("slow hiring"), Str("complete"))]
      [] text = J_SD -> [field_key |-> "solution_description",
                         entry |-> Entry(Str("job board"), Str("complete"))]
      [] text = J_ICP_PARTIAL -> [field_key |-> "icp", entry |-> Entry(Str("stu"), Str("partial"))]

\* The record after the well-formed directives among bs, applied in order.
RECURSIVE Expected(_, _)
Expected(pd, bs) ==
    IF bs = <<>> THEN pd
    ELSE IF Head(bs).text \in DirectiveTexts
    THEN LET d == DirectiveOf(Head(bs).text)
         IN  Expected([pd EXCEPT ![d.field_key] = d.entry], Tail(bs))
    ELSE Expected(pd, Tail(bs))

\* The fields some well-formed directive of bs names.
Named(bs) ==
    {DirectiveOf(bs[i].text).field_key : i \in {j \in 1..Len(bs) : bs[j].text \in DirectiveTexts}}

\* The last call of ingest got a reply composed of closed blocks with these texts.
GotBlocksOf(texts) ==
    /\ turn.called
    /\ turn.reply.kind = "blocks"
    /\ \A i \in 1..Len(turn.reply.blocks) :
          turn.reply.blocks[i].closed /\ turn.reply.blocks[i].text \in texts

\* C1: the display message ingest returns contains neither ---UPDATE---, nor
\* ---END---, nor ---READY_FOR_EVALUATION---, whatever the model's text.
C1_DisplayHasNoDelimiter ==
    (turn.called /\ turn.result.outcome = "returned") =>
        /\ ~str_contains(turn.result.response, UPDATE_DELIM)
        /\ ~str_contains(turn.result.response, END_DELIM)
        /\ ~str_contains(turn.result.response, READY_MARKER)

\* C2: for a reply whose blocks are each invalid JSON or a well-formed
\* directive for a known field, ingest returns, the returned record is the
\* input with exactly the well-formed directives applied in order, a field
\* that only malformed blocks name is unchanged, and without the readiness
\* marker ready_for_evaluation is false.
C2_MalformedBlocksSkipped ==
    GotBlocksOf(DirectiveTexts \cup MalformedTexts) =>
        /\ turn.result.outcome = "returned"
        /\ turn.result.pitch_data = Expected(turn.before, turn.reply.blocks)
        /\ \A k \in FIELD_INFO \ Named(turn.reply.blocks) :
              turn.result.pitch_data[k] = turn.before[k]
        /\ ~turn.reply.marker => ~turn.result.ready_for_evaluation

\* A malformed block first, two well-formed directives after it, no marker:
\* both directives are applied and problem_definition, named only by the
\* malformed block, is as before.
C2_Witness ==
    /\ GotBlocksOf(DirectiveTexts \cup MalformedTexts)
    /\ turn.before = get_default_pitch_data
    /\ turn.reply.blocks = <<[text |-> BAD_PD, closed |-> TRUE],
                             [text |-> J_ICP, closed |-> TRUE],
                             [text |-> J_SD, closed |-> TRUE]>>
    /\ ~turn.reply.marker
    /\ turn.result.outcome = "returned"
    /\ turn.result.pitch_data =
          [get_default_pitch_data EXCEPT
              !["icp"] = Entry(Str("students"), Str("complete")),
              !["solution_description"] = Entry(Str("job board"), Str("complete"))]
    /\ ~turn.result.ready_for_evaluation

\* C3: whenever the reply contains the readiness marker, ingest returns with
\* ready_for_evaluation true, whatever the blocks of the reply hold.
C3_MarkerMeansReady ==
    (turn.called /\ turn.reply.kind = "blocks" /\ turn.reply.marker) =>
        /\ turn.result.outcome = "returned"
        /\ turn.result.ready_for_evaluation

\* C4: the record passed to ingest is after the call, however it ended, what
\* it was before the call.
C4_InputRecordUnchanged ==
    turn.called => turn.result.arg = turn.before

\* A call that returned a changed record and left the caller's as it was.
C4_Witness ==
    /\ turn.called
    /\ turn.result.outcome = "returned"
    /\ turn.result.pitch_data # turn.before
    /\ turn.result.arg = turn.before

\* C5: one well-formed directive (f, v, s) sets entry f of the returned record
\* to (v, s) and leaves the two other entries as they were; (icp, students,
\* complete) on a default record leaves the two other fields ("", unknown).
C5_DirectiveSetsItsField ==
    (GotBlocksOf(DirectiveTexts) /\ Len(turn.reply.blocks) = 1) =>
        LET d == DirectiveOf(turn.reply.blocks[1].text)
        IN  /\ turn.result.outcome = "returned"
            /\ turn.result.pitch_data[d.field_key] = d.entry
            /\ \A k \in FIELD_INFO \ {d.field_key} :
                  turn.result.pitch_data[k] = turn.before[k]
            /\ (turn.reply.blocks[1].text = J_ICP /\ turn.before = get_default_pitch_data) =>
                  turn.result.pitch_data =
                      [problem_definition |-> Entry(Str(""), Str("unknown")),
                       solution_description |-> Entry(Str(""), Str("unknown")),
                       icp |-> Entry(Str("students"), Str("complete"))]

\* The directive (icp, students, complete) applied to a default record.
C5_Witness ==
    /\ GotBlocksOf(DirectiveTexts)
    /\ Len(turn.reply.blocks) = 1
    /\ turn.reply.blocks[1].text = J_ICP
    /\ turn.before = get_default_pitch_data
    /\ turn.result.pitch_data["icp"] = Entry(Str("students"), Str("complete"))

\* C6: in every record of the session, each entry's state is one of unknown,
\* partial, complete.
C6_StatesCanonical ==
    \A k \in FIELD_INFO : pitch_data[k].state \in Canonical

\* C7: a directive whose field_key is absent, another string or no string is
\* ignored: ingest returns, the other directives are applied, and the record
\* keeps exactly the three known keys.
C7_UnknownKeyIgnored ==
    GotBlocksOf(DirectiveTexts \cup {J_MARKET, J_NO_KEY, J_NUM_KEY, J_LIST_KEY}) =>
        /\ turn.result.outcome = "returned"
        /\ DOMAIN turn.result.pitch_data = FIELD_INFO
        /\ turn.result.pitch_data = Expected(turn.before, turn.reply.blocks)

\* C8: the model calls of evaluate are research, synthesis, scoring in this
\* order, each made after the one before returned and with that one's output
\* in its prompt; evaluate returns a result only after three calls that
\* returned and a scoring output that is JSON, and a scoring output that is
\* not JSON ends evaluate in an error with no result.
C8_EvaluateStages ==
    LET log == eval_state.log
    IN  /\ Len(log) <= Len(Stages)
        /\ \A i \in 1..Len(log) : log[i].stage = Stages[i]
        /\ \A i \in 2..Len(log) : log[i - 1].ok /\ log[i].prior = log[i - 1].output
        /\ (eval_state.ended = "returned" \/ evaluation_result # None) =>
              /\ Len(log) = 3
              /\ \A i \in 1..3 : log[i].ok
              /\ log[3].output = J_EVALUATION
              /\ eval_state.ended = "returned"
              /\ evaluation_result = <<[evaluation |-> log[3].output,
                                        competitive_analysis_full |-> log[2].output]>>
        /\ (Len(log) = 3 /\ log[3].ok /\ log[3].output # J_EVALUATION) =>
              eval_state.ended = "raised" /\ evaluation_result = None

\* evaluate ended in an error on a scoring output that is not JSON.
C8_Witness ==
    /\ Len(eval_state.log) = 3
    /\ eval_state.log[3].ok
    /\ eval_state.log[3].output # J_EVALUATION
    /\ eval_state.ended = "raised"
    /\ evaluation_result = None

\* C9: when the model call of ingest fails, ingest has made that one call,
\* returns nothing and raises, and the session's record and mode are what
\* they were before the turn.
C9_FailedCallLeavesSession ==
    (turn.called /\ turn.reply.kind = "error") =>
        /\ turn.result.calls = 1
        /\ turn.result.outcome = "raised"
        /\ pitch_data = turn.before
        /\ mode = turn.mode_before

\* A failed call in a session whose record already holds a directive's update.
C9_Witness ==
    /\ turn.called
    /\ turn.reply.kind = "error"
    /\ turn.before # get_default_pitch_data
    /\ pitch_data = turn.before
    /\ mode = "ingest"

Ind(b) == IF b THEN 1 ELSE 0
InState(pd, st) ==
    Ind(pd["problem_definition"].state = st) + Ind(pd["solution_description"].state = st)
    + Ind(pd["icp"].state = st)

\* C10: total is 3; complete, partial and unknown are the numbers of entries
\* in these states; percentage is complete/3*100; an entry in any other state
\* is counted in none of the three, so their sum is at most total, and equal
\* to it exactly when every state is canonical.
C10_StatsCountStates ==
    stats # NoStats =>
        /\ stats.total = 3
        /\ stats.complete = InState(pitch_data, Str("complete"))
        /\ stats.partial = InState(pitch_data, Str("partial"))
        /\ stats.unknown = InState(pitch_data, Str("unknown"))
        /\ stats.percentage.num * 3 = stats.complete * 100 * stats.percentage.den
        /\ stats.complete + stats.partial + stats.unknown <= stats.total
        /\ (stats.complete + stats.partial + stats.unknown = stats.total)
              <=> (\A k \in FIELD_INFO : pitch_data[k].state \in Canonical)

\* Statistics of a record with one complete, one partial and one entry whose
\* state is not canonical.
C10_Witness ==
    /\ stats # NoStats
    /\ \E k \in FIELD_INFO : pitch_data[k].state \notin Canonical
    /\ stats.complete = 1
    /\ stats.partial = 1
    /\ stats.unknown = 0
    /\ stats.total = 3

AllComplete(pd) == \A k \in FIELD_INFO : pd[k].state = Str("complete")

\* C11: the session is in mode evaluate or evaluation_result, and evaluate
\* has made a model call, only with a record whose three entries are all
\* complete.
C11_EvaluateOnlyWhenComplete ==
    (mode \in {"evaluate", "evaluation_result"} \/ eval_state.log # <<>>) =>
        AllComplete(pitch_data)

====
